---- MODULE Spec2Model ----
(***************************************************************************)
(* Model of the request handlers of src/main.py (a FastAPI service that    *)
(* derives market analytics from the CoinGecko API).                       *)
(*                                                                         *)
(* Every handler is a synchronous function that performs its own upstream  *)
(* requests with requests.get and keeps the parsed answer in local         *)
(* variables; the module has no shared mutable state.  The upstream        *)
(* provider is the environment: its market listing changes over time and   *)
(* every request to it answers with some status code.                      *)
(*                                                                         *)
(* Numbers: prices and amounts are integers.  Floating point results that  *)
(* need exp, log or sqrt are computed in fixed point (SCALE).              *)
(***************************************************************************)
EXTENDS Integers, Sequences, FiniteSets, TLC

VARIABLES
    market,     \* provider: version of the listing /coins/markets serves now
    calls,      \* ghost: number of upstream requests issued, per request key
    lastGood,   \* ghost: version of the last listing fetched with status 200
    pl,         \* the calculate_profit_loss request
    ac,         \* the get_all_cryptos request
    sig,        \* the short-term / long-term signal requests, one per task
    corr,       \* the get_correlation_analysis request
    heat,       \* the get_volatility_heatmap request
    ema         \* harness applying calculate_exponential_moving_average

vars == <<market, calls, lastGood, pl, ac, sig, corr, heat, ema>>

----------------------------------------------------------------------------
(* Bounds *)

MaxVer == 2          \* provider listing versions 0..MaxVer
MaxAmount == 2       \* amounts -1..MaxAmount
MaxLen == 3          \* longest enumerated price series
MaxSigLen == 2       \* longest enumerated series served to a signal request
MaxPrice == 2        \* enumerated series prices -1..MaxPrice
MaxWindow == 4       \* EMA harness windows 0..MaxWindow (and 20, 200)
NumTasks == 2        \* concurrent request tasks

----------------------------------------------------------------------------
(* Python values *)

None == <<>>
Some(v) == <<v>>

\* Python truthiness of an optional float: None and 0.0 are falsy.
TruthyNum(x) == x # None /\ x[1] # 0

\* Python truthiness of an optional str: None and "" are falsy.
TruthyStr(x) == x # None /\ x[1] # ""

Abs(x) == IF x < 0 THEN -x ELSE x

Min(a, b) == IF a < b THEN a ELSE b

Max(a, b) == IF a > b THEN a ELSE b

\* Python's data[lo:hi] on a list (0-based, negative indices from the end).
SliceIndex(k, n) == IF k < 0 THEN Max(n + k, 0) ELSE Min(k, n)

Slice(data, lo, hi) ==
    LET n == Len(data)
        a == SliceIndex(lo, n)
        b == SliceIndex(hi, n)
    IN  IF a < b THEN SubSeq(data, a + 1, b) ELSE <<>>

----------------------------------------------------------------------------
(* The upstream provider *)

Statuses == {200, 404, 429, 503}

AssetIds == <<"bitcoin", "ethereum">>

\* Price of an asset in version v of the listing.
ListedPrice(id, v) ==
    IF id = "bitcoin" THEN 50000 + 5000 * v ELSE 3000 + 100 * v

\* The body of GET /coins/markets?vs_currency=usd when the provider is at
\* version v.  ver tags each record with the listing it belongs to.
Listing(v) ==
    [k \in 1..Len(AssetIds) |->
        [id |-> AssetIds[k], current_price |-> ListedPrice(AssetIds[k], v), ver |-> v]]

MarketsKey == <<"coins/markets", "", 0>>

ChartKey(id, days) == <<"market_chart", id, days>>

ChartIds == {"bitcoin", "ethereum", "dogecoin"}

Keys == {MarketsKey} \cup {ChartKey(id, d) : id \in ChartIds, d \in {1, 90, 180}}

\* requests.get: one more upstream request for key.
Requested(key) == [calls EXCEPT ![key] = @ + 1]

\* The provider publishes a new listing.
ProviderUpdate ==
    /\ market < MaxVer
    /\ market' = market + 1
    /\ UNCHANGED <<calls, lastGood, pl, ac, sig, corr, heat, ema>>

----------------------------------------------------------------------------
(* Responses of a handler *)

NoBody == [crypto_name |-> "", operation |-> "", current_price |-> 0,
           profit_loss_status |-> "", profit_loss_value |-> 0]

NoResponse == [status |-> 0, detail |-> "", body |-> NoBody]

HTTPException(code, text) == [status |-> code, detail |-> text, body |-> NoBody]

\* a loop that asks the provider again instead of reading its local list
CryptoRefetched(data, i) == Listing(market)[i]

\* for crypto in data: the i-th record of the handler's local list.
Crypto(data, i) == data[i]

----------------------------------------------------------------------------
(* calculate_profit_loss, src/main.py 337-369 *)

example_message ==
    "Example: /profit-loss-calculator?crypto_name=bitcoin&amount=1&purchase_price=50000&operation=long"

\* the check without its last conjunct
RequiredGivenNoOperation(crypto_name, amount, purchase_price, operation) ==
    /\ TruthyStr(crypto_name)
    /\ TruthyNum(amount)
    /\ TruthyNum(purchase_price)

\* line 340
RequiredGiven(crypto_name, amount, purchase_price, operation) ==
    /\ TruthyStr(crypto_name)
    /\ TruthyNum(amount)
    /\ TruthyNum(purchase_price)
    /\ TruthyStr(operation)

\* lines 361-369 with a strict comparison and a single multiplication
ProfitLossStrict(crypto_name, current_price, purchase_price, amount, operation) ==
    LET base == (current_price - purchase_price) * amount
        profit_loss == IF operation = "short" THEN -base ELSE base
    IN  [crypto_name |-> crypto_name,
         operation |-> operation,
         current_price |-> current_price,
         profit_loss_status |-> IF profit_loss > 0 THEN "profit" ELSE "loss",
         profit_loss_value |-> Abs(profit_loss)]

\* lines 361-369
ProfitLoss(crypto_name, current_price, purchase_price, amount, operation) ==
    LET base == (current_price - purchase_price) * amount
        profit_loss == IF operation = "short" THEN -base ELSE base
    IN  [crypto_name |-> crypto_name,
         operation |-> operation,
         current_price |-> current_price,
         profit_loss_status |-> IF profit_loss >= 0 THEN "profit" ELSE "loss",
         profit_loss_value |-> Abs(profit_loss) * amount]

PLNames == {None, Some(""), Some("bitcoin"), Some("dogecoin")}
PLAmounts == {None} \cup {Some(a) : a \in -1..MaxAmount}
PLPrices == {None, Some(0), Some(50000), Some(60000)}
PLOperations == {None, Some(""), Some("long"), Some("short")}

PLRequest(n, a, p, o) ==
    [pc |-> "validate", crypto_name |-> n, amount |-> a, purchase_price |-> p,
     operation |-> o, data |-> <<>>, i |-> 0, current_price |-> None,
     seen |-> {}, resp |-> NoResponse]

\* lines 340-344
PLValidate ==
    /\ pl.pc = "validate"
    /\ IF ~RequiredGiven(pl.crypto_name, pl.amount, pl.purchase_price, pl.operation)
       THEN pl' = [pl EXCEPT !.pc = "done",
                     !.resp = HTTPException(400,
                        "Please provide the required parameters. " \o example_message)]
       ELSE pl' = [pl EXCEPT !.pc = "fetch"]
    /\ UNCHANGED <<market, calls, lastGood, ac, sig, corr, heat, ema>>

\* lines 346-351
PLFetch ==
    /\ pl.pc = "fetch"
    /\ calls' = Requested(MarketsKey)
    /\ \E status_code \in Statuses :
         IF status_code # 200
         THEN /\ pl' = [pl EXCEPT !.pc = "done",
                          !.resp = HTTPException(status_code,
                                     "Error when obtaining cryptocurrency data")]
              /\ UNCHANGED lastGood
         ELSE /\ pl' = [pl EXCEPT !.pc = "loop", !.data = Listing(market), !.i = 1]
              /\ lastGood' = Some(market)
    /\ UNCHANGED <<market, ac, sig, corr, heat, ema>>

\* lines 353-356, one iteration
PLLoop ==
    /\ pl.pc = "loop"
    /\ IF pl.i > Len(pl.data)
       THEN pl' = [pl EXCEPT !.pc = "compute"]
       ELSE LET crypto == Crypto(pl.data, pl.i)
            IN  IF crypto.id = pl.crypto_name[1]
                THEN pl' = [pl EXCEPT !.pc = "compute",
                              !.current_price = Some(crypto.current_price),
                              !.seen = @ \cup {crypto.ver}]
                ELSE pl' = [pl EXCEPT !.i = @ + 1, !.seen = @ \cup {crypto.ver}]
    /\ UNCHANGED <<market, calls, lastGood, ac, sig, corr, heat, ema>>

\* lines 358-369
PLCompute ==
    /\ pl.pc = "compute"
    /\ IF pl.current_price = None
       THEN pl' = [pl EXCEPT !.pc = "done",
                     !.resp = HTTPException(404, "Cryptocurrency not found")]
       ELSE pl' = [pl EXCEPT !.pc = "done",
                     !.resp = [status |-> 200, detail |-> "",
                               body |-> ProfitLoss(pl.crypto_name[1], pl.current_price[1],
                                                   pl.purchase_price[1], pl.amount[1],
                                                   pl.operation[1])]]
    /\ UNCHANGED <<market, calls, lastGood, ac, sig, corr, heat, ema>>

----------------------------------------------------------------------------
(* get_all_cryptos, src/main.py 27-51 *)

NoListResponse == [status |-> 0, detail |-> "", content |-> <<>>, total_count |-> 0]

ACRequest(skip, limit) ==
    [pc |-> "fetch", skip |-> skip, limit |-> limit, status_code |-> 0,
     prior |-> None, page |-> <<>>, total_cryptos |-> 0, i |-> 0,
     crypto_list |-> <<>>, resp |-> NoListResponse]

\* lines 29-34 and the slice of line 37.  prior is a ghost: the listing that
\* had last been fetched successfully when this request was issued.
ACFetch ==
    /\ ac.pc = "fetch"
    /\ calls' = Requested(MarketsKey)
    /\ \E status_code \in Statuses :
         IF status_code # 200
         THEN /\ ac' = [ac EXCEPT !.pc = "done",
                          !.status_code = status_code,
                          !.prior = lastGood,
                          !.resp = [NoListResponse EXCEPT
                                         !.status = status_code,
                                         !.detail = "Error when obtaining cryptocurrency data"]]
              /\ UNCHANGED lastGood
         ELSE /\ LET data == Listing(market)
                 IN  ac' = [ac EXCEPT !.pc = "loop",
                              !.status_code = status_code,
                              !.prior = lastGood,
                              !.total_cryptos = Len(data),
                              !.page = Slice(data, ac.skip, ac.skip + ac.limit),
                              !.i = 1]
              /\ lastGood' = Some(market)
    /\ UNCHANGED <<market, pl, sig, corr, heat, ema>>

\* lines 37-44, one iteration.  The prices are integers, which round(_, 2)
\* leaves as they are.
ACLoop ==
    /\ ac.pc = "loop"
    /\ IF ac.i > Len(ac.page)
       THEN ac' = [ac EXCEPT !.pc = "return"]
       ELSE LET crypto == Crypto(ac.page, ac.i)
            IN  ac' = [ac EXCEPT !.i = @ + 1,
                         !.crypto_list = Append(@, crypto)]
    /\ UNCHANGED <<market, calls, lastGood, pl, sig, corr, heat, ema>>

\* lines 46-51
ACReturn ==
    /\ ac.pc = "return"
    /\ ac' = [ac EXCEPT !.pc = "done",
                 !.resp = [status |-> 200, detail |-> "",
                              content |-> ac.crypto_list,
                              total_count |-> ac.total_cryptos]]
    /\ UNCHANGED <<market, calls, lastGood, pl, sig, corr, heat, ema>>

----------------------------------------------------------------------------
(* Fixed point arithmetic *)

SCALE == 10000

ExpTerms == 14

RECURSIVE ExpSeries(_, _, _, _, _)
\* Alternating Taylor series of exp(-num/den): term is the n-th term's
\* magnitude, acc the partial sum; both scaled by SCALE.
ExpSeries(term, num, den, n, acc) ==
    IF n > ExpTerms \/ term = 0
    THEN acc
    ELSE LET next == (term * num) \div (den * n)
         IN  ExpSeries(next, num, den, n + 1,
                       IF n % 2 = 1 THEN acc - next ELSE acc + next)

\* np.exp(-num/den) for 0 <= num <= den, scaled by SCALE
ExpNeg(num, den) == ExpSeries(SCALE, num, den, 1, SCALE)

RECURSIVE SumTo(_, _, _)
\* sum of f[k] for k in lo..hi
SumTo(f, lo, hi) ==
    IF lo > hi THEN 0
    ELSE IF lo = hi THEN f[lo]
    ELSE LET mid == (lo + hi) \div 2
         IN  SumTo(f, lo, mid) + SumTo(f, mid + 1, hi)

----------------------------------------------------------------------------
(* calculate_exponential_moving_average, src/main.py 183-187 *)

\* np.linspace(-1., 0., window)[i - 1] is -(window - i)/(window - 1); a
\* single sample is -1.  The result is the exponent's negation as a fraction.
LinspaceNum(window, i) == IF window = 1 THEN 1 ELSE window - i

LinspaceDen(window) == IF window = 1 THEN 1 ELSE window - 1

\* line 184: np.exp(np.linspace(-1., 0., window)), scaled by SCALE
ExpWeights(window) ==
    SubSeq([i \in 1..window |-> ExpNeg(LinspaceNum(window, i), LinspaceDen(window))],
           1, window)

\* line 185: weights /= weights.sum(), scaled by SCALE
Weights(window) ==
    LET e == ExpWeights(window)
        total == SumTo(e, 1, window)
    IN  SubSeq([i \in 1..window |-> (e[i] * SCALE) \div total], 1, window)

EmaWindows == (1..MaxWindow) \cup {20, 200}

\* the weight vectors of the windows in use, computed once
WeightTable ==
    SubSeq([window \in 1..200 |->
              IF window \in EmaWindows THEN Weights(window) ELSE <<>>], 1, 200)

\* np.convolve(a, v, mode="full"): Len(a) + Len(v) - 1 entries
Convolve(a, v) ==
    [k \in 1..(Len(a) + Len(v) - 1) |->
        LET lo == Max(1, k - Len(v) + 1)
            hi == Min(k, Len(a))
        IN  SumTo([j \in lo..hi |-> a[j] * v[k - j + 1]], lo, hi)]

ValueError == [ok |-> FALSE, value |-> <<>>]

\* the convolution returned whole, without the [:len(prices)] of line 186
calculate_ema_untruncated(prices, window) ==
    IF window < 1 \/ Len(prices) = 0
    THEN ValueError
    ELSE [ok |-> TRUE, value |-> Convolve(prices, WeightTable[window])]

\* lines 184-187.  numpy raises ValueError for a window below 1 (linspace of
\* a negative count, convolution with an empty vector) and for no prices.
calculate_exponential_moving_average(prices, window) ==
    IF window < 1 \/ Len(prices) = 0
    THEN ValueError
    ELSE LET full == Convolve(prices, WeightTable[window])
         IN  [ok |-> TRUE, value |-> [k \in 1..Len(prices) |-> full[k]]]

----------------------------------------------------------------------------
(* Price series the provider may serve *)

RECURSIVE SeqsUpTo(_, _)
\* all sequences over S of length at most n
SeqsUpTo(S, n) ==
    IF n = 0 THEN {<<>>}
    ELSE LET shorter == SeqsUpTo(S, n - 1)
         IN  shorter \cup {Append(q, x) : q \in shorter, x \in S}

LongLen == 21

\* a rising and a falling series longer than the short-term window
LongSeries == {[k \in 1..LongLen |-> k], [k \in 1..LongLen |-> LongLen + 1 - k]}

\* series served to the signal handlers
SignalSeries == SeqsUpTo(0..MaxPrice, MaxSigLen) \cup LongSeries

\* series the EMA is applied to on its own
EmaSeries == SeqsUpTo(0..MaxPrice, MaxLen) \cup LongSeries

----------------------------------------------------------------------------
(* get_short_term_signal and get_long_term_signal, src/main.py 190-231 *)

NoSignal == [status |-> 0, detail |-> "", signal |-> "", position |-> ""]

HandlerWindow(handler) == IF handler = "short-term" THEN 20 ELSE 200

\* the comparison turned into >=
ClassifyAtLeast(current_price, ema_last, window) ==
    IF current_price * SCALE >= ema_last
    THEN [signal |-> "long",
          position |-> IF window = 20 THEN "price above EMA 20" ELSE "price above EMA 200"]
    ELSE [signal |-> "short",
          position |-> IF window = 20 THEN "price below EMA 20" ELSE "price below EMA 200"]

\* lines 202-207 and 224-229; ema_last is scaled by SCALE
Classify(current_price, ema_last, window) ==
    IF current_price * SCALE > ema_last
    THEN [signal |-> "long",
          position |-> IF window = 20 THEN "price above EMA 20" ELSE "price above EMA 200"]
    ELSE [signal |-> "short",
          position |-> IF window = 20 THEN "price below EMA 20" ELSE "price below EMA 200"]

SigRequest(handler, crypto_name) ==
    [pc |-> "fetch", handler |-> handler, crypto_name |-> crypto_name,
     status_code |-> 0, prices |-> <<>>, resp |-> NoSignal]

\* lines 192-198 and 214-220: both handlers ask for the 1-day series
SigFetch(t) ==
    /\ sig[t].pc = "fetch"
    /\ calls' = Requested(ChartKey(sig[t].crypto_name, 1))
    /\ \E status_code \in Statuses :
         IF status_code # 200
         THEN sig' = [sig EXCEPT ![t].pc = "done",
                        ![t].status_code = status_code,
                        ![t].resp = [NoSignal EXCEPT
                                       !.status = status_code,
                                       !.detail = "Error when obtaining cryptocurrency data"]]
         ELSE \E prices \in SignalSeries :
                sig' = [sig EXCEPT ![t].pc = "classify",
                          ![t].status_code = status_code,
                          ![t].prices = prices]
    /\ UNCHANGED <<market, lastGood, pl, ac, corr, heat, ema>>

\* lines 199-209 and 221-231.  An empty series makes numpy raise, which the
\* framework answers with 500.
SigClassify(t) ==
    /\ sig[t].pc = "classify"
    /\ LET window == HandlerWindow(sig[t].handler)
           prices == sig[t].prices
           ema_w == calculate_exponential_moving_average(prices, window)
       IN  IF ~ema_w.ok
           THEN sig' = [sig EXCEPT ![t].pc = "done",
                          ![t].resp = [NoSignal EXCEPT !.status = 500,
                                         !.detail = "Internal Server Error"]]
           ELSE LET c == Classify(prices[Len(prices)], ema_w.value[Len(ema_w.value)], window)
                IN  sig' = [sig EXCEPT ![t].pc = "done",
                              ![t].resp = [status |-> 200, detail |-> "",
                                           signal |-> c.signal, position |-> c.position]]
    /\ UNCHANGED <<market, calls, lastGood, pl, ac, corr, heat, ema>>

----------------------------------------------------------------------------
(* Floating point values that may be infinite or NaN *)

Finite(v) == [cls |-> "finite", v |-> v]

NaN == [cls |-> "nan", v |-> 0]

PosInf == [cls |-> "inf", v |-> 0]

NegInf == [cls |-> "-inf", v |-> 0]

RECURSIVE SqrtBetween(_, _, _)
\* the largest r in lo..hi with r * r <= x
SqrtBetween(x, lo, hi) ==
    IF lo >= hi THEN lo
    ELSE LET mid == (lo + hi + 1) \div 2
         IN  IF mid * mid <= x THEN SqrtBetween(x, mid, hi)
             ELSE SqrtBetween(x, lo, mid - 1)

\* floor of the square root of x >= 0
ISqrt(x) == SqrtBetween(x, 0, Min(x, 46340))

RECURSIVE LnSeries(_, _, _, _, _)
\* ln(p) = 2 * sum of z^(2k+1) / (2k+1) with z = (p - 1)/(p + 1); term is
\* z^(2k+1) scaled by SCALE
LnSeries(term, p, k, acc, steps) ==
    IF term = 0 \/ steps = 0
    THEN 2 * acc
    ELSE LnSeries((term * (p - 1) * (p - 1)) \div ((p + 1) * (p + 1)), p, k + 1,
                  acc + term \div (2 * k + 1), steps - 1)

\* np.log of one price: -inf at 0, NaN below 0, else ln scaled by SCALE
Log(p) ==
    IF p < 0 THEN NaN
    ELSE IF p = 0 THEN NegInf
    ELSE Finite(LnSeries((SCALE * (p - 1)) \div (p + 1), p, 0, 0, 40))

\* b - a in floating point
FloatMinus(b, a) ==
    IF a.cls = "nan" \/ b.cls = "nan" THEN NaN
    ELSE IF a.cls = "finite" /\ b.cls = "finite" THEN Finite(b.v - a.v)
    ELSE IF a.cls = b.cls THEN NaN
    ELSE IF b.cls = "finite" THEN (IF a.cls = "inf" THEN NegInf ELSE PosInf)
    ELSE b

\* np.diff
Diff(xs) == [k \in 1..(Len(xs) - 1) |-> FloatMinus(xs[k + 1], xs[k])]

\* np.std: NaN for no samples and as soon as one sample is not finite
\* (the mean is then infinite or NaN), else the population deviation.
Std(xs) ==
    LET n == Len(xs)
    IN  IF n = 0 \/ \E k \in 1..n : xs[k].cls # "finite"
        THEN NaN
        ELSE LET sum == SumTo([k \in 1..n |-> xs[k].v], 1, n)
                 squares == SumTo([k \in 1..n |-> xs[k].v * xs[k].v], 1, n)
             IN  Finite(ISqrt(n * squares - sum * sum) \div n)

\* np.sqrt(252), scaled by 1000
Sqrt252 == ISqrt(252 * 1000 * 1000)

----------------------------------------------------------------------------
(* calculate_volatility, src/main.py 282-285 *)

\* lines 283-285; the result is scaled by SCALE
calculate_volatility(prices) ==
    LET returns == Diff([k \in 1..Len(prices) |-> Log(prices[k])])
        deviation == Std(returns)
    IN  IF deviation.cls = "finite"
        THEN Finite((deviation.v * Sqrt252) \div 1000)
        ELSE NaN

----------------------------------------------------------------------------
(* get_volatility_heatmap, src/main.py 288-309 *)

NoVolatility == [status |-> 0, detail |-> "", crypto_name |-> "", volatility |-> Finite(0)]

HeatRequest(crypto_name) ==
    [pc |-> "listing", crypto_name |-> crypto_name, upstream |-> <<>>,
     price_data |-> <<>>, resp |-> NoVolatility]

HeatSeries == SeqsUpTo(-1..MaxPrice, MaxLen)

\* lines 303-304
HeatChartError(status_code) ==
    [NoVolatility EXCEPT !.status = status_code,
                         !.detail = "Error when obtaining price data"]

\* lines 290-298
HeatListing ==
    /\ heat.pc = "listing"
    /\ calls' = Requested(MarketsKey)
    /\ \E status_code \in Statuses :
         IF status_code # 200
         THEN /\ heat' = [heat EXCEPT !.pc = "done",
                            !.upstream = Append(@, status_code),
                            !.resp = [NoVolatility EXCEPT
                                        !.status = status_code,
                                        !.detail = "Error when obtaining cryptocurrency data"]]
              /\ UNCHANGED lastGood
         ELSE /\ LET data == Listing(market)
                 IN  IF ~\E k \in 1..Len(data) : Crypto(data, k).id = heat.crypto_name
                     THEN heat' = [heat EXCEPT !.pc = "done",
                                     !.upstream = Append(@, status_code),
                                     !.resp = [NoVolatility EXCEPT
                                                 !.status = 404,
                                                 !.detail = "Cryptocurrency not found"]]
                     ELSE heat' = [heat EXCEPT !.pc = "chart",
                                     !.upstream = Append(@, status_code)]
              /\ lastGood' = Some(market)
    /\ UNCHANGED <<market, pl, ac, sig, corr, ema>>

\* lines 300-306
HeatChart ==
    /\ heat.pc = "chart"
    /\ calls' = Requested(ChartKey(heat.crypto_name, 90))
    /\ \E status_code \in Statuses :
         IF status_code # 200
         THEN heat' = [heat EXCEPT !.pc = "done",
                         !.upstream = Append(@, status_code),
                         !.resp = HeatChartError(status_code)]
         ELSE \E prices \in HeatSeries :
                heat' = [heat EXCEPT !.pc = "compute",
                           !.upstream = Append(@, status_code),
                           !.price_data = prices]
    /\ UNCHANGED <<market, lastGood, pl, ac, sig, corr, ema>>

\* lines 307-309: the handler returns whatever calculate_volatility returned
HeatCompute ==
    /\ heat.pc = "compute"
    /\ heat' = [heat EXCEPT !.pc = "done",
                  !.resp = [status |-> 200, detail |-> "",
                            crypto_name |-> heat.crypto_name,
                            volatility |-> calculate_volatility(heat.price_data)]]
    /\ UNCHANGED <<market, calls, lastGood, pl, ac, sig, corr, ema>>

----------------------------------------------------------------------------
(* get_correlation_analysis, src/main.py 254-279 *)

\* np.corrcoef(a, b)[0, 1] for series of equal length, scaled by 1000: NaN
\* with fewer than two points or a constant series.
Pearson(a, b) ==
    LET n == Len(a)
        sa == SumTo(a, 1, n)
        sb == SumTo(b, 1, n)
        da == n * SumTo([k \in 1..n |-> a[k] * a[k]], 1, n) - sa * sa
        db == n * SumTo([k \in 1..n |-> b[k] * b[k]], 1, n) - sb * sb
        c == n * SumTo([k \in 1..n |-> a[k] * b[k]], 1, n) - sa * sb
    IN  IF n < 2 \/ da = 0 \/ db = 0
        THEN NaN
        ELSE LET r == (Abs(c) * 1000) \div Max(ISqrt(da * db), 1)
             IN  Finite((IF c < 0 THEN -1 ELSE 1) * Min(r, 1000))

NoCorrelation == [status |-> 0, detail |-> "", crypto_id |-> "",
                  correlation_with_btc |-> NaN, correlation_with_eth |-> NaN]

InternalServerError == [NoCorrelation EXCEPT !.status = 500, !.detail = "Internal Server Error"]

CorrRequest(crypto_name) ==
    [pc |-> "own", crypto_name |-> crypto_name, upstream |-> <<>>,
     prices |-> <<>>, btc_prices |-> <<>>, eth_prices |-> <<>>, resp |-> NoCorrelation]

CorrSeries == SeqsUpTo(0..MaxPrice, MaxSigLen)

\* lines 256-262
CorrOwn ==
    /\ corr.pc = "own"
    /\ calls' = Requested(ChartKey(corr.crypto_name, 180))
    /\ \E status_code \in Statuses :
         IF status_code # 200
         THEN corr' = [corr EXCEPT !.pc = "done",
                         !.upstream = Append(@, status_code),
                         !.resp = [NoCorrelation EXCEPT
                                     !.status = status_code,
                                     !.detail = "Error when obtaining cryptocurrency data"]]
         ELSE \E prices \in CorrSeries :
                corr' = [corr EXCEPT !.pc = "btc",
                           !.upstream = Append(@, status_code),
                           !.prices = prices]
    /\ UNCHANGED <<market, lastGood, pl, ac, sig, heat, ema>>

\* lines 264-266: the status is not looked at; the body of an answer other
\* than 200 has no "prices", so reading it raises and the framework answers
\* with 500.
CorrBtc ==
    /\ corr.pc = "btc"
    /\ calls' = Requested(ChartKey("bitcoin", 180))
    /\ \E status_code \in Statuses :
         IF status_code # 200
         THEN corr' = [corr EXCEPT !.pc = "done",
                         !.upstream = Append(@, status_code),
                         !.resp = InternalServerError]
         ELSE \E prices \in CorrSeries :
                corr' = [corr EXCEPT !.pc = "eth",
                           !.upstream = Append(@, status_code),
                           !.btc_prices = prices]
    /\ UNCHANGED <<market, lastGood, pl, ac, sig, heat, ema>>

\* lines 268-270, as lines 264-266
CorrEth ==
    /\ corr.pc = "eth"
    /\ calls' = Requested(ChartKey("ethereum", 180))
    /\ \E status_code \in Statuses :
         IF status_code # 200
         THEN corr' = [corr EXCEPT !.pc = "done",
                         !.upstream = Append(@, status_code),
                         !.resp = InternalServerError]
         ELSE \E prices \in CorrSeries :
                corr' = [corr EXCEPT !.pc = "compute",
                           !.upstream = Append(@, status_code),
                           !.eth_prices = prices]
    /\ UNCHANGED <<market, lastGood, pl, ac, sig, heat, ema>>

\* lines 272-279; np.corrcoef raises for series of different lengths
CorrCompute ==
    /\ corr.pc = "compute"
    /\ IF Len(corr.prices) # Len(corr.btc_prices) \/ Len(corr.prices) # Len(corr.eth_prices)
       THEN corr' = [corr EXCEPT !.pc = "done", !.resp = InternalServerError]
       ELSE corr' = [corr EXCEPT !.pc = "done",
                       !.resp = [status |-> 200, detail |-> "",
                                 crypto_id |-> corr.crypto_name,
                                 correlation_with_btc |-> Pearson(corr.prices, corr.btc_prices),
                                 correlation_with_eth |-> Pearson(corr.prices, corr.eth_prices)]]
    /\ UNCHANGED <<market, calls, lastGood, pl, ac, sig, heat, ema>>

----------------------------------------------------------------------------
(* Idle values of the requests a specification does not run *)

IdlePL == [PLRequest(None, None, None, None) EXCEPT !.pc = "idle"]

IdleAC == [pc |-> "idle"]

Tasks == 1..NumTasks

IdleSig == [t \in Tasks |-> [pc |-> "idle"]]

IdleCorr == [pc |-> "idle"]

IdleHeat == [pc |-> "idle"]

IdleEma == [pc |-> "idle"]

NoCalls == [k \in Keys |-> 0]

----------------------------------------------------------------------------
(* Specification: one profit/loss request against any listing version *)

InitPL ==
    /\ market \in 0..MaxVer
    /\ calls = NoCalls
    /\ lastGood = None
    /\ pl \in {PLRequest(n, a, p, o) :
                 n \in PLNames, a \in PLAmounts, p \in PLPrices, o \in PLOperations}
    /\ ac = IdleAC
    /\ sig = IdleSig
    /\ corr = IdleCorr
    /\ heat = IdleHeat
    /\ ema = IdleEma

NextPL == PLValidate \/ PLFetch \/ PLLoop \/ PLCompute \/ ProviderUpdate

SpecPL == InitPL /\ [][NextPL]_vars

----------------------------------------------------------------------------
(* Specification: listing requests while the provider changes its listing *)

InitListing ==
    /\ market = 0
    /\ calls = NoCalls
    /\ lastGood = None
    /\ pl \in {PLRequest(Some(n), Some(1), Some(50000), Some("long")) :
                 n \in {"ethereum", "dogecoin"}}
    /\ ac \in {ACRequest(skip, limit) : skip \in {-1, 0, 1}, limit \in {1, 2}}
    /\ sig = IdleSig
    /\ corr = IdleCorr
    /\ heat = IdleHeat
    /\ ema = IdleEma

NextListing ==
    \/ ACFetch
    \/ ACLoop
    \/ ACReturn
    \/ PLValidate
    \/ PLFetch
    \/ PLLoop
    \/ PLCompute
    \/ ProviderUpdate

SpecListing == InitListing /\ [][NextListing]_vars

Range(f) == {f[k] : k \in DOMAIN f}

\* C2: whatever listing records one request has read, they all belong to one
\* fetched listing: there is a version whose listing contains every record
\* the request has observed, however the provider's updates interleave.
C2_SnapshotAtomicity ==
    /\ \E v \in 0..MaxVer :
          Range(ac.crypto_list) \cup Range(ac.resp.content) \subseteq Range(Listing(v))
    /\ Cardinality(pl.seen) <= 1

\* both requests read two records and the provider moved on to a newer
\* listing while they did
C2_Witness ==
    /\ ac.pc = "done"
    /\ Len(ac.resp.content) = 2
    /\ ac.resp.content[1].ver < market
    /\ pl.pc = "compute"
    /\ pl.i = 2
    /\ pl.seen # {}
    /\ pl.seen # {market}

\* C3: when a full-listing fetch fails after an earlier one succeeded, the
\* listing read still answers with the last successfully fetched listing.
C3_StaleOnFailure ==
    (ac.pc = "done" /\ ac.status_code # 200 /\ ac.prior # None)
    => /\ ac.resp.status = 200
       /\ ac.resp.content = Slice(Listing(ac.prior[1]), ac.skip, ac.skip + ac.limit)

PLAnswered == pl.pc = "done" /\ pl.resp.status = 200

PLAbsent ==
    \/ pl.crypto_name = None
    \/ pl.amount = None
    \/ pl.purchase_price = None
    \/ pl.operation = None

\* C5: a computed profit/loss answer has status "profit" exactly when
\* base = (currentPrice - purchasePrice) * amount, negated for "short", is
\* >= 0 and "loss" otherwise, and value abs(base) * amount; the two worked
\* examples (55000, 50000, 1, long/short) give profit 5000 and loss 5000.
C5_ProfitLossResult ==
    PLAnswered =>
        LET cp == pl.current_price[1]
            pp == pl.purchase_price[1]
            am == pl.amount[1]
            raw == (cp - pp) * am
            base == IF pl.operation[1] = "short" THEN 0 - raw ELSE raw
            b == pl.resp.body
        IN  /\ (b.profit_loss_status = "profit") <=> (base >= 0)
            /\ (b.profit_loss_status = "loss") <=> (base < 0)
            /\ b.profit_loss_value = (IF base < 0 THEN 0 - base ELSE base) * am
            /\ (cp = 55000 /\ pp = 50000 /\ am = 1 /\ pl.operation[1] = "long")
                  => (b.profit_loss_status = "profit" /\ b.profit_loss_value = 5000)
            /\ (cp = 55000 /\ pp = 50000 /\ am = 1 /\ pl.operation[1] = "short")
                  => (b.profit_loss_status = "loss" /\ b.profit_loss_value = 5000)

\* the answer to (55000, 50000, 1, "short")
C5_Witness ==
    /\ PLAnswered
    /\ pl.current_price = Some(55000)
    /\ pl.purchase_price = Some(50000)
    /\ pl.amount = Some(1)
    /\ pl.operation = Some("short")
    /\ pl.resp.body.profit_loss_status = "loss"
    /\ pl.resp.body.profit_loss_value = 5000

\* C6: when at least one of the four inputs is absent the request ends with
\* the 400 error whose message carries the usage example, no upstream request
\* is ever issued for it and it carries no profit/loss result.
C6_MissingParameter ==
    PLAbsent =>
        /\ calls = NoCalls
        /\ pl.pc \in {"validate", "done"}
        /\ pl.pc = "done" =>
              /\ pl.resp.status = 400
              /\ pl.resp.detail =
                    "Please provide the required parameters. Example: /profit-loss-calculator?crypto_name=bitcoin&amount=1&purchase_price=50000&operation=long"
              /\ pl.resp.body = NoBody

\* a finished request that lacked only its operation
C6_Witness ==
    /\ pl.pc = "done"
    /\ pl.operation = None
    /\ pl.crypto_name = Some("bitcoin")
    /\ pl.amount = Some(1)
    /\ pl.purchase_price = Some(50000)
    /\ pl.resp.status = 400

\* C10: a request in which all four inputs are supplied (names non-empty,
\* amount and purchase price any number, 0 included) is never rejected with
\* the missing-parameter error.
C10_SuppliedNotRejected ==
    ( /\ pl.pc = "done"
      /\ pl.crypto_name \notin {None, Some("")}
      /\ pl.operation \notin {None, Some("")}
      /\ pl.amount # None
      /\ pl.purchase_price # None )
    => pl.resp.status # 400

----------------------------------------------------------------------------
(* Specification: concurrent signal requests *)

InitSignal ==
    /\ market = 0
    /\ calls = NoCalls
    /\ lastGood = None
    /\ pl = IdlePL
    /\ ac = IdleAC
    /\ sig \in [Tasks -> {SigRequest(h, "bitcoin") : h \in {"short-term", "long-term"}}]
    /\ corr = IdleCorr
    /\ heat = IdleHeat
    /\ ema = IdleEma

NextSignal == \E t \in Tasks : SigFetch(t) \/ SigClassify(t)

SpecSignal == InitSignal /\ [][NextSignal]_vars

\* C1: when every task has asked for the same key and all have been
\* answered, the provider was asked exactly once for that key and all the
\* tasks hold the result of that one request.
C1_SingleFlight ==
    \A k \in Keys :
        (\A t \in Tasks : sig[t].pc = "done" /\ ChartKey(sig[t].crypto_name, 1) = k)
        => /\ calls[k] = 1
           /\ \A t, u \in Tasks :
                /\ sig[t].status_code = sig[u].status_code
                /\ sig[t].prices = sig[u].prices

\* C9: an answered signal request says "long" exactly when the last price is
\* strictly above the last EMA value of its window (20 short-term, 200
\* long-term) and "short" otherwise, and its position label names the same
\* side and the same window.
C9_SignalClassification ==
    \A t \in Tasks :
        (sig[t].pc = "done" /\ sig[t].resp.status = 200) =>
            LET p == sig[t].prices
                w == IF sig[t].handler = "short-term" THEN 20 ELSE 200
                e == calculate_exponential_moving_average(p, w).value
                above == p[Len(p)] * SCALE > e[Len(e)]
                r == sig[t].resp
            IN  /\ r.signal \in {"long", "short"}
                /\ (r.signal = "long") <=> above
                /\ sig[t].handler = "short-term" =>
                     r.position = (IF r.signal = "long" THEN "price above EMA 20"
                                   ELSE "price below EMA 20")
                /\ sig[t].handler = "long-term" =>
                     r.position = (IF r.signal = "long" THEN "price above EMA 200"
                                   ELSE "price below EMA 200")

\* one task answered "short" on a price equal to its EMA, another "long"
C9_Witness ==
    \E t, u \in Tasks :
        /\ sig[t].pc = "done" /\ sig[t].resp.status = 200
        /\ sig[t].prices = <<0, 0>>
        /\ sig[t].resp.signal = "short"
        /\ sig[u].pc = "done" /\ sig[u].resp.status = 200
        /\ sig[u].handler = "long-term"
        /\ sig[u].resp.signal = "long"
        /\ sig[u].resp.position = "price above EMA 200"

----------------------------------------------------------------------------
(* Specification: calculate_exponential_moving_average applied to any input *)

InitEMA ==
    /\ market = 0
    /\ calls = NoCalls
    /\ lastGood = None
    /\ pl = IdlePL
    /\ ac = IdleAC
    /\ sig = IdleSig
    /\ corr = IdleCorr
    /\ heat = IdleHeat
    /\ ema \in {[pc |-> "call", prices |-> p, window |-> w, result |-> ValueError] :
                  p \in EmaSeries, w \in {-1, 0} \cup EmaWindows}

EmaApply ==
    /\ ema.pc = "call"
    /\ ema' = [ema EXCEPT !.pc = "returned",
                 !.result = calculate_exponential_moving_average(ema.prices, ema.window)]
    /\ UNCHANGED <<market, calls, lastGood, pl, ac, sig, corr, heat>>

NextEMA == EmaApply

SpecEMA == InitEMA /\ [][NextEMA]_vars

\* C7: for a non-empty price sequence and a window >= 1, larger than the
\* sequence or not, the EMA is computed and has exactly len(prices) entries,
\* the k-th being the k-th entry of the full convolution with the weights.
C7_EmaLength ==
    (ema.pc = "returned" /\ Len(ema.prices) >= 1 /\ ema.window >= 1) =>
        /\ ema.result.ok
        /\ Len(ema.result.value) = Len(ema.prices)
        /\ \A k \in 1..Len(ema.prices) :
             ema.result.value[k] =
                SumTo([j \in 1..k |->
                         IF k - j + 1 <= ema.window
                         THEN ema.prices[j] * WeightTable[ema.window][k - j + 1]
                         ELSE 0], 1, k)

\* an EMA returned for a window larger than the series
C7_Witness ==
    /\ ema.pc = "returned"
    /\ ema.window > Len(ema.prices)
    /\ Len(ema.prices) = 2
    /\ ema.result.ok
    /\ Len(ema.result.value) = 2

----------------------------------------------------------------------------
(* Specification: a correlation request or a volatility request *)

InitAnalysis ==
    /\ market = 0
    /\ calls = NoCalls
    /\ lastGood = None
    /\ pl = IdlePL
    /\ ac = IdleAC
    /\ sig = IdleSig
    /\ \/ corr = CorrRequest("dogecoin") /\ heat = IdleHeat
       \/ corr = IdleCorr /\ heat \in {HeatRequest(n) : n \in {"bitcoin", "dogecoin"}}
    /\ ema = IdleEma

NextAnalysis ==
    \/ CorrOwn
    \/ CorrBtc
    \/ CorrEth
    \/ CorrCompute
    \/ HeatListing
    \/ HeatChart
    \/ HeatCompute

SpecAnalysis == InitAnalysis /\ [][NextAnalysis]_vars

Failed(upstream) == {k \in 1..Len(upstream) : upstream[k] # 200}

\* C4: when one of the provider requests of a handler, the first or a later
\* one, is answered with a status other than 200, the handler fails with
\* exactly that status and returns no computed result.
C4_StatusPropagation ==
    /\ (corr.pc = "done" /\ Failed(corr.upstream) # {}) =>
          /\ \E k \in Failed(corr.upstream) : corr.resp.status = corr.upstream[k]
          /\ corr.resp.crypto_id = ""
    /\ (heat.pc = "done" /\ Failed(heat.upstream) # {}) =>
          /\ \E k \in Failed(heat.upstream) : heat.resp.status = heat.upstream[k]
          /\ heat.resp.crypto_name = ""

\* C8: the volatility of a series of fewer than 2 prices is the
\* InsufficientData failure and that of a series with a price <= 0 the
\* InvalidInput failure; no value is returned for such a series.
C8_VolatilityPreconditions ==
    (heat.pc = "done" /\ heat.upstream = <<200, 200>>) =>
        LET prices == heat.price_data
            short == Len(prices) < 2
            nonpositive == \E k \in 1..Len(prices) : prices[k] <= 0
        IN  /\ short => (heat.resp.status # 200 /\ heat.resp.detail = "InsufficientData")
            /\ (nonpositive /\ ~short) =>
                  (heat.resp.status # 200 /\ heat.resp.detail = "InvalidInput")

====
